---- MODULE Spec2Model ----
(***************************************************************************)
(* Othello engine of OTHELLO/othello.py: the sentinel-bordered board, the  *)
(* bracket search, move legality and application, turn resolution and the  *)
(* game loop play().                                                       *)
(*                                                                         *)
(* Python lists are objects: a board is an object id into `heap`, so that  *)
(* "make_move copies, it does not write into its argument" is a statement  *)
(* about the heap and not a tautology about values.                        *)
(***************************************************************************)
EXTENDS Integers, Sequences, FiniteSets, TLC

(* ---------------- bounds of the model ---------------- *)
\* scripts 0..MaxScript stand for the answers a strategy gives: script k
\* answers with the (k mod n)-th of the n legal moves offered.
MaxScript == 2
\* the search depths tried are 0..MaxDepth
MaxDepth == 2
\* minimax is run on the boards with at most MaxEmpty empty squares
MaxEmpty == 20
\* the user of ai_strategy types a depth in 1..MaxAiDepth at the first prompt
\* and keeps it at the later ones
MaxAiDepth == 1

(* ---------------- BOARD SETUP (othello.py:2) ---------------- *)
EMPTY == 0
BLACK == 1
WHITE == 2
OUTER == 3
\* Python's None, wherever a player, a square or an object is optional
None == -1

PLAYERS == {BLACK, WHITE}

(* ---------------- DIRECTION STEPS (othello.py:6-8) ---------------- *)
UP == -10
DOWN == 10
LEFT == -1
RIGHT == 1
UP_RIGHT == -9
DOWN_RIGHT == 11
DOWN_LEFT == 9
UP_LEFT == -11
\* variant: the four diagonals left out
DIRECTIONS_straight == <<UP, RIGHT, DOWN, LEFT>>

DIRECTIONS == <<UP, UP_RIGHT, RIGHT, DOWN_RIGHT, DOWN, DOWN_LEFT, LEFT, UP_LEFT>>

(* ---------------- CORE BOARD HELPERS ---------------- *)
\* range(a, b) as a list
range(a, b) == [n \in 1..(b - a) |-> a + n - 1]

\* variant: the column test lets column 9 through
on_board_wide(i) == 1 <= (i % 10) /\ (i % 10) <= 9

\* the membership test of the comprehension in squares()
on_board(i) == 1 <= (i % 10) /\ (i % 10) <= 8

\* [i for i in range(11, 89) if 1 <= (i % 10) <= 8]
squares == SelectSeq(range(11, 89), on_board)

\* list indexing board[i]: a negative index counts from the end of the list
At(cells, i) == IF i < 0 THEN cells[i + 100] ELSE cells[i]

\* variant: the four centre discs with the colours exchanged
initial_cells_swapped ==
    [i \in 0..99 |->
        IF i \in {44, 55} THEN BLACK
        ELSE IF i \in {45, 54} THEN WHITE
        ELSE IF i \in 11..88 /\ 1 <= (i % 10) /\ (i % 10) <= 8 THEN EMPTY
        ELSE OUTER]

\* the cell values of initial_board()
initial_cells ==
    LET sqs == squares
        outer == [i \in 0..99 |-> OUTER]
        cleared == [i \in 0..99 |->
                      IF \E n \in 1..Len(sqs) : sqs[n] = i
                      THEN EMPTY ELSE outer[i]]
    IN [cleared EXCEPT ![44] = WHITE, ![45] = BLACK,
                       ![54] = BLACK, ![55] = WHITE]

opponent(player) == IF player = WHITE THEN BLACK ELSE WHITE

\* move in squares(): move is one of the i in range(11, 89) that pass the test
is_valid(move) == move \in 11..88 /\ on_board(move)

(* ---------------- MOVE LEGALITY ---------------- *)
\* the while loop of find_bracket: walk over the opponent's discs
RECURSIVE bracket_walk(_, _, _, _)
bracket_walk(bracket, player, cells, direction) ==
    IF At(cells, bracket) = opponent(player)
    THEN bracket_walk(bracket + direction, player, cells, direction)
    ELSE bracket

\* variant: no test of the cell the walk stops on, a run that ends on an
\* empty or a border cell is bracketed too
find_bracket_open(square, player, cells, direction) ==
    IF At(cells, square + direction) # opponent(player) THEN None
    ELSE bracket_walk(square + direction, player, cells, direction)

\* variant: no test of the first cell, the player's own disc next to the
\* square is a bracket
find_bracket_adjacent(square, player, cells, direction) ==
    LET end == bracket_walk(square + direction, player, cells, direction)
    IN IF At(cells, end) = player THEN end ELSE None

find_bracket(square, player, cells, direction) ==
    LET bracket == square + direction IN
    IF At(cells, bracket) # opponent(player) THEN None
    ELSE LET end == bracket_walk(bracket, player, cells, direction)
         IN IF At(cells, end) = player THEN end ELSE None

\* variant: no test that the square is empty
is_legal_occupied(move, player, cells) ==
    IF ~is_valid(move) THEN FALSE
    ELSE \E n \in 1..Len(DIRECTIONS) :
            find_bracket(move, player, cells, DIRECTIONS[n]) # None

is_legal(move, player, cells) ==
    IF ~is_valid(move) \/ At(cells, move) # EMPTY THEN FALSE
    ELSE \E n \in 1..Len(DIRECTIONS) :
            find_bracket(move, player, cells, DIRECTIONS[n]) # None

legal_moves(player, cells) ==
    SelectSeq(squares, LAMBDA sq : is_legal(sq, player, cells))

any_legal_move(player, cells) ==
    LET sqs == squares IN
    \E n \in 1..Len(sqs) : is_legal(sqs[n], player, cells)

(* ---------------- make_move, on the heap ---------------- *)
\* the smallest object id that is not in use
fresh(h) == CHOOSE i \in 0..Cardinality(DOMAIN h) : i \notin DOMAIN h

\* variant: no copy, the same list object
list_alias(h, board) == [heap |-> h, ret |-> board]

\* list(board): a new list object with the same cells
list_copy(h, board) ==
    LET id == fresh(h) IN [heap |-> h @@ (id :> h[board]), ret |-> id]

\* variant: an if in place of the while, one disc flipped per direction
flip_one(h, new_board, sq, bracket, d, player) ==
    IF sq # bracket THEN [h EXCEPT ![new_board][sq] = player] ELSE h

\* while sq != bracket: new_board[sq] = player; sq += d
RECURSIVE flip_run(_, _, _, _, _, _)
flip_run(h, new_board, sq, bracket, d, player) ==
    IF sq # bracket
    THEN flip_run([h EXCEPT ![new_board][sq] = player],
                  new_board, sq + d, bracket, d, player)
    ELSE h

\* for d in DIRECTIONS: the bracket is searched on new_board as it is by then
RECURSIVE flip_directions(_, _, _, _, _)
flip_directions(h, new_board, move, player, n) ==
    IF n > Len(DIRECTIONS) THEN h
    ELSE LET d == DIRECTIONS[n]
             bracket == find_bracket(move, player, h[new_board], d)
             h2 == IF bracket # None
                   THEN flip_run(h, new_board, move + d, bracket, d, player)
                   ELSE h
         IN flip_directions(h2, new_board, move, player, n + 1)

\* make_move(move, player, board) run on heap h; the result is the heap after
\* the call and the id of the returned list
make_move(move, player, board, h) ==
    LET c == list_copy(h, board)
        new_board == c.ret
    IN IF move = None THEN c
       ELSE [heap |-> flip_directions([c.heap EXCEPT ![new_board][move] = player],
                                      new_board, move, player, 1),
             ret |-> new_board]

(* ---------------- TURN LOGIC / SCORING ---------------- *)
\* variant: no second test, a player without a move ends the game
next_player_no_pass(prev_player, cells) ==
    IF any_legal_move(opponent(prev_player), cells)
    THEN opponent(prev_player) ELSE None

\* variant: the opponent is next whenever the game is not over
next_player_alternating(prev_player, cells) ==
    IF any_legal_move(opponent(prev_player), cells)
       \/ any_legal_move(prev_player, cells)
    THEN opponent(prev_player) ELSE None

\* variant: the two tests in the other order
next_player_prev_first(prev_player, cells) ==
    IF any_legal_move(prev_player, cells) THEN prev_player
    ELSE IF any_legal_move(opponent(prev_player), cells)
         THEN opponent(prev_player)
    ELSE None

next_player(prev_player, cells) ==
    LET opp == opponent(prev_player) IN
    IF any_legal_move(opp, cells) THEN opp
    ELSE IF any_legal_move(prev_player, cells) THEN prev_player
    ELSE None

\* sum(1 for s in board if s == colour)
count(colour, cells) == Cardinality({i \in 0..99 : cells[i] = colour})

\* variant: the player's own discs, the opponent's not taken off
score_own(player, cells) == count(player, cells)

score(player, cells) == count(player, cells) - count(opponent(player), cells)

\* variant: or in place of and
terminal_either(cells) ==
    ~any_legal_move(BLACK, cells) \/ ~any_legal_move(WHITE, cells)

terminal(cells) == ~any_legal_move(BLACK, cells) /\ ~any_legal_move(WHITE, cells)

(* ---------------- AI (othello.py:171-285) ---------------- *)
CORNERS == <<11, 18, 81, 88>>
X_SQUARES == <<22, 27, 72, 77>>
C_SQUARES == <<12, 17, 21, 28, 71, 78, 82, 87>>

\* m in CORNERS
is_corner(m) == \E n \in 1..Len(CORNERS) : CORNERS[n] = m

\* sum(1 for x in sqs if board[x] == colour)
held(sqs, colour, cells) ==
    Cardinality({n \in 1..Len(sqs) : At(cells, sqs[n]) = colour})

evaluate(cells, root_player) ==
    LET opp == opponent(root_player)
        corner_score == held(CORNERS, root_player, cells)
                        - held(CORNERS, opp, cells)
        mob == Len(legal_moves(root_player, cells))
               - Len(legal_moves(opp, cells))
        discdiff == score(root_player, cells)
        x_diff == held(X_SQUARES, root_player, cells)
                  - held(X_SQUARES, opp, cells)
        c_diff == held(C_SQUARES, root_player, cells)
                  - held(C_SQUARES, opp, cells)
    IN 25 * corner_score + 5 * mob + 1 * discdiff - 4 * x_diff - 2 * c_diff

\* the cells of the list make_move returns for a board with these cells
child_cells(move, player, cells) ==
    LET r == make_move(move, player, 0, (0 :> cells)) IN r.heap[r.ret]

\* sorted(moves, key=move_key): a stable sort on the key 0 (corner) / 1
sorted_moves(moves) ==
    SelectSeq(moves, is_corner) \o SelectSeq(moves, LAMBDA m : ~is_corner(m))

\* variant: no comparison of the squares, the first best child examined stays
improves_strictly(maximizing, val, mv, best_val, best_move) ==
    IF maximizing THEN val > best_val ELSE val < best_val

\* variant: a child that ties replaces the best move held so far
improves_on_tie(maximizing, val, mv, best_val, best_move) ==
    IF maximizing THEN val >= best_val ELSE val <= best_val

\* the test that replaces the best move held so far (lines 271-280)
improves(maximizing, val, mv, best_val, best_move) ==
    IF maximizing
    THEN val > best_val \/ (val = best_val /\ mv < best_move)
    ELSE val < best_val \/ (val = best_val /\ mv < best_move)

\* variant: the result of the search below the pass is returned as it is
pass_result_kept(r) == r

\* lines 240-241: the value of the search below a forced pass, with no move
pass_result(r) == [r EXCEPT !.move = None]

\* variant: the search stops one level late
base_case_late(depth, cells) == depth < 0 \/ terminal(cells)

\* line 227: the test of the base case
base_case(depth, cells) == depth = 0 \/ terminal(cells)

\* The result of a minimax call carries, next to (val, move):
\*   nodes  the counter NODES_EXAMINED after the call,
\*   calls  the number of minimax invocations of the call, itself included,
\*          counted from the call tree (1 + the invocations below),
\*   trace  one entry per invocation made: how far below this call it is
\*          nested, the depth argument it got, the branch it took and
\*          whether its player_to_move had a legal move on its board,
\*   kids   for the loop over the moves: each move with its child value.
\* the invocations of a recursive call as seen from its caller
nested(trace) == {[t EXCEPT !.level = @ + 1] : t \in trace}

\* one invocation with depth argument depth that took branch and got r from
\* the calls it made
invocation(depth, branch, mover, r) ==
    [r EXCEPT !.calls = @ + 1,
              !.trace = {[level |-> 0, depth |-> depth, branch |-> branch,
                          mover |-> mover]}
                        \cup nested(@)]

\* minimax(board, player_to_move, depth, root_player) entered with the
\* counter NODES_EXAMINED at nodes0; the result carries the counter after it
RECURSIVE minimax(_, _, _, _, _)
RECURSIVE minimax_moves(_, _, _, _, _, _, _)

\* lines 263-267: the value of the child reached by mv, r.nodes the counter
\* before it
child_result(child_board, nxt, depth, root_player, nodes) ==
    IF nxt = None
    THEN [val |-> evaluate(child_board, root_player), nodes |-> nodes,
          calls |-> 0, trace |-> {}]
    ELSE minimax(child_board, nxt, depth - 1, root_player, nodes)

\* lines 260-262: the child of cells by mv, and the search below it
child_search(cells, player_to_move, depth, root_player, mv, nodes) ==
    child_result(child_cells(mv, player_to_move, cells),
                 next_player(player_to_move,
                             child_cells(mv, player_to_move, cells)),
                 depth, root_player, nodes)

\* lines 269-280: best_val and best_move after the child of mv returned r
keep_best(maximizing, best, mv, r) ==
    LET won == improves(maximizing, r.val, mv, best.val, best.move)
    IN [val |-> IF won THEN r.val ELSE best.val,
        move |-> IF won THEN mv ELSE best.move,
        nodes |-> r.nodes,
        calls |-> best.calls + r.calls,
        trace |-> best.trace \cup r.trace,
        kids |-> best.kids \cup {[move |-> mv, val |-> r.val]}]

\* the for loop over the ordered moves, from the n-th on; best holds
\* best_val, best_move and the counter (read first: each iteration is
\* finished before the next one starts)
minimax_moves(cells, player_to_move, depth, root_player, moves, n, best) ==
    IF best.nodes < 0 \/ n > Len(moves) THEN best
    ELSE minimax_moves(cells, player_to_move, depth, root_player, moves, n + 1,
                       keep_best(player_to_move = root_player, best, moves[n],
                                 child_search(cells, player_to_move, depth,
                                              root_player, moves[n],
                                              best.nodes)))

minimax(cells, player_to_move, depth, root_player, nodes0) ==
    LET nodes == nodes0 + 1
        mover == any_legal_move(player_to_move, cells)
    IN
    IF base_case(depth, cells)
    THEN invocation(depth, "base", mover,
                    [val |-> evaluate(cells, root_player), move |-> None,
                     nodes |-> nodes, calls |-> 0, trace |-> {}, kids |-> {}])
    ELSE
    LET moves == legal_moves(player_to_move, cells) IN
    IF moves = <<>>
    THEN LET child_board == child_cells(None, player_to_move, cells)
             nxt == next_player(player_to_move, child_board)
         IN IF nxt = None
            THEN invocation(depth, "pass_end", mover,
                            [val |-> evaluate(child_board, root_player),
                             move |-> None, nodes |-> nodes, calls |-> 0,
                             trace |-> {}, kids |-> {}])
            ELSE LET r == pass_result(minimax(child_board, nxt, depth - 1,
                                              root_player, nodes))
                 IN invocation(depth, "pass", mover, [r EXCEPT !.kids = {}])
    ELSE LET ordered == sorted_moves(moves)
             maximizing == (player_to_move = root_player)
             best_val == IF maximizing THEN -1000000000 ELSE 1000000000
         IN invocation(depth, "moves", mover,
                minimax_moves(cells, player_to_move, depth, root_player,
                              ordered, 1,
                              [val |-> best_val, move |-> ordered[1],
                               nodes |-> nodes, calls |-> 0, trace |-> {},
                               kids |-> {}]))

(* ---------------- strategies ---------------- *)
\* human_strategy: None when there is nothing to play, otherwise the first
\* accepted input, which is a member of the legal moves; script k is the
\* user who enters the (k mod n)-th of the n moves listed
human_strategy(player, cells, k) ==
    LET moves == legal_moves(player, cells) IN
    IF moves = <<>> THEN None
    ELSE moves[(k % Len(moves)) + 1]

\* the depth in force after the prompt of ai_strategy (lines 302-311): raw is
\* the integer typed, None for the Enter key or for text that is no integer
prompt_depth(raw, depth) == IF raw # None /\ raw >= 1 THEN raw ELSE depth

\* variant: the counter is left as the search before left it
counter_kept(nodes) == nodes

\* line 314: NODES_EXAMINED = 0
counter_reset(nodes) == 0

\* the search result of an ai_strategy call that made no search
NoResult == [val |-> None, move |-> None, nodes |-> None, calls |-> 0,
             trace |-> {}, kids |-> {}]

\* ai_strategy(player, board) entered with AI_SEARCH_DEPTH at depth0 and
\* NODES_EXAMINED at nodes0: the move returned, the two globals after the
\* call and the result of the search it made
searched(depth, r) ==
    [move |-> r.move, depth |-> depth, nodes |-> r.nodes, found |-> r]

ai_strategy(player, cells, raw, depth0, nodes0) ==
    IF Len(legal_moves(player, cells)) = 0
    THEN [move |-> None, depth |-> depth0, nodes |-> nodes0,
          found |-> NoResult]
    ELSE searched(prompt_depth(raw, depth0),
                  minimax(cells, player, prompt_depth(raw, depth0), player,
                          counter_reset(nodes0)))

(* ---------------- state ---------------- *)
VARIABLES
    heap,     \* object id -> cells of that list object
    board,    \* play(): the local `board`, an object id
    player,   \* play(): the local `player`, BLACK, WHITE or None
    strat,    \* play(): colour -> script of that colour's strategy
    pc,       \* play(): "loop" while in the while loop, "done" after the report
    b,        \* play(): BLACK's final count (None before the report)
    w,        \* play(): WHITE's final count (None before the report)
    nmoves,   \* number of moves play() has applied
    last,     \* the make_move call of the latest loop iteration of play()
    call,     \* a make_move call made on the current board by another caller
    search,   \* a minimax call made on the current board
    AI_SEARCH_DEPTH,  \* the global of that name
    NODES_EXAMINED,   \* the global of that name
    ai        \* the latest ai_strategy call that searched

vars == <<heap, board, player, strat, pc, b, w, nmoves, last, call, search,
          AI_SEARCH_DEPTH, NODES_EXAMINED, ai>>

\* strat[player] is ai_strategy (a script of human_strategy is 0 or more)
AI == -2

\* a make_move call as its caller sees it: the arguments, a copy of the cells
\* of the argument taken before the call, and the list returned
NoCall == [move |-> None, player |-> None, arg |-> None, saved |-> <<>>,
           ret |-> None]

NoSearch == [player |-> None, depth |-> None, root |-> None, val |-> None,
             move |-> None, nodes |-> None, calls |-> None, trace |-> {},
             kids |-> {}]

\* an ai_strategy call: the player, the depth searched, the two values
\* minimax returned, NODES_EXAMINED on entry, and the invocations of minimax
\* counted from the call tree
NoAi == [player |-> None, depth |-> None, val |-> None, move |-> None,
         before |-> None, calls |-> None]

\* the heap once the references in keep are the only ones left
retain(h, keep) == [id \in (DOMAIN h) \cap keep |-> h[id]]

Init ==
    /\ heap = (0 :> initial_cells)
    /\ board = 0
    /\ player = BLACK
    /\ strat \in [PLAYERS -> 0..MaxScript]
    /\ pc = "loop"
    /\ b = None
    /\ w = None
    /\ nmoves = 0
    /\ last = NoCall
    /\ call = NoCall
    /\ search = NoSearch
    /\ AI_SEARCH_DEPTH = 4
    /\ NODES_EXAMINED = 0
    /\ ai = NoAi

\* one iteration of the while loop of play(), strat[player] a human_strategy
PlayTurn ==
    /\ pc = "loop"
    /\ call = NoCall
    /\ search = NoSearch
    /\ player # None
    /\ strat[player] # AI
    /\ LET h0 == retain(heap, {board})
           move == human_strategy(player, h0[board], strat[player])
           r == make_move(move, player, board, h0)
       IN /\ heap' = r.heap
          /\ board' = r.ret
          /\ player' = next_player(player, r.heap[r.ret])
          /\ nmoves' = nmoves + 1
          /\ last' = [move |-> move, player |-> player, arg |-> board,
                      saved |-> h0[board], ret |-> r.ret]
    /\ UNCHANGED <<strat, pc, b, w, call, search>>
    /\ UNCHANGED <<AI_SEARCH_DEPTH, NODES_EXAMINED, ai>>

\* what the user types at the prompt of ai_strategy: a depth within the bound
\* while the depth in force is beyond it, afterwards the Enter key
prompts(depth) == IF depth > MaxAiDepth THEN 1..MaxAiDepth ELSE {None}

\* lines 152-156 with the move, the globals and the search that ai_strategy
\* returned as s, and the list make_move returned as r
ai_turn(s, r) ==
    /\ AI_SEARCH_DEPTH' = s.depth
    /\ NODES_EXAMINED' = s.nodes
    /\ ai' = IF s.found = NoResult THEN ai
             ELSE [player |-> player, depth |-> s.depth,
                   val |-> s.found.val, move |-> s.found.move,
                   before |-> NODES_EXAMINED, calls |-> s.found.calls]
    /\ heap' = r.heap
    /\ board' = r.ret
    /\ player' = next_player(player, r.heap[r.ret])
    /\ nmoves' = nmoves + 1
    /\ last' = [move |-> s.move, player |-> player, arg |-> board,
                saved |-> heap[board], ret |-> r.ret]

ai_move(s) == ai_turn(s, make_move(s.move, player, board, retain(heap, {board})))

\* one iteration of the while loop of play(), strat[player] is ai_strategy
AiTurn ==
    /\ pc = "loop"
    /\ call = NoCall
    /\ search = NoSearch
    /\ player # None
    /\ strat[player] = AI
    /\ \E raw \in prompts(AI_SEARCH_DEPTH) :
         ai_move(ai_strategy(player, heap[board], raw, AI_SEARCH_DEPTH,
                             NODES_EXAMINED))
    /\ UNCHANGED <<strat, pc, b, w, call, search>>

\* the loop has ended: count the discs for the report
PlayEnd ==
    /\ pc = "loop"
    /\ call = NoCall
    /\ search = NoSearch
    /\ player = None
    /\ pc' = "done"
    /\ b' = count(BLACK, heap[board])
    /\ w' = count(WHITE, heap[board])
    /\ UNCHANGED <<heap, board, player, strat, nmoves, last, call, search>>
    /\ UNCHANGED <<AI_SEARCH_DEPTH, NODES_EXAMINED, ai>>

\* a caller other than play() (the search, a test) applies a legal move of
\* either colour to the current board and holds the result
CallMove ==
    /\ call = NoCall
    /\ search = NoSearch
    /\ \E p \in PLAYERS :
         LET moves == legal_moves(p, heap[board]) IN
         \E n \in 1..Len(moves) :
            LET r == make_move(moves[n], p, board, heap)
            IN /\ heap' = r.heap
               /\ call' = [move |-> moves[n], player |-> p, arg |-> board,
                           saved |-> heap[board], ret |-> r.ret]
    /\ UNCHANGED <<board, player, strat, pc, b, w, nmoves, last, search>>
    /\ UNCHANGED <<AI_SEARCH_DEPTH, NODES_EXAMINED, ai>>

\* the same caller applies the pass value
CallPass ==
    /\ call = NoCall
    /\ search = NoSearch
    /\ \E p \in PLAYERS :
         LET r == make_move(None, p, board, heap)
         IN /\ heap' = r.heap
            /\ call' = [move |-> None, player |-> p, arg |-> board,
                        saved |-> heap[board], ret |-> r.ret]
    /\ UNCHANGED <<board, player, strat, pc, b, w, nmoves, last, search>>
    /\ UNCHANGED <<AI_SEARCH_DEPTH, NODES_EXAMINED, ai>>

\* a caller other than play() applies an index of range(11, 89) that
\* is_legal refuses for that colour: an occupied square, an empty one that
\* brackets nothing, or a border cell
CallIllegal ==
    /\ call = NoCall
    /\ search = NoSearch
    /\ \E p \in PLAYERS, m \in 11..88 :
         /\ ~is_legal(m, p, heap[board])
         /\ LET r == make_move(m, p, board, heap)
            IN /\ heap' = r.heap
               /\ call' = [move |-> m, player |-> p, arg |-> board,
                           saved |-> heap[board], ret |-> r.ret]
    /\ UNCHANGED <<board, player, strat, pc, b, w, nmoves, last, search>>
    /\ UNCHANGED <<AI_SEARCH_DEPTH, NODES_EXAMINED, ai>>

\* a minimax call as its caller sees it: the arguments and the result r
found(p, depth, root, r) ==
    [player |-> p, depth |-> depth, root |-> root, val |-> r.val,
     move |-> r.move, nodes |-> r.nodes, calls |-> r.calls,
     trace |-> r.trace, kids |-> r.kids]

\* a caller runs minimax on the current board, with a counter of its own
\* that starts at zero
Search ==
    /\ call = NoCall
    /\ search = NoSearch
    /\ count(EMPTY, heap[board]) <= MaxEmpty
    /\ \E p \in PLAYERS, root \in PLAYERS, depth \in 0..MaxDepth :
         search' = found(p, depth, root,
                         minimax(heap[board], p, depth, root, 0))
    /\ UNCHANGED <<heap, board, player, strat, pc, b, w, nmoves, last, call>>
    /\ UNCHANGED <<AI_SEARCH_DEPTH, NODES_EXAMINED, ai>>

\* the caller drops the result of its call
Drop ==
    /\ call # NoCall \/ search # NoSearch
    /\ call' = NoCall
    /\ search' = NoSearch
    /\ heap' = retain(heap, {board, last.arg})
    /\ UNCHANGED <<board, player, strat, pc, b, w, nmoves, last>>
    /\ UNCHANGED <<AI_SEARCH_DEPTH, NODES_EXAMINED, ai>>

Next == PlayTurn \/ PlayEnd \/ CallMove \/ CallPass \/ Drop

Spec == Init /\ [][Next]_vars

\* the games alone, every script for either colour
NextPlay == PlayTurn \/ PlayEnd

SpecPlay == Init /\ [][NextPlay]_vars

\* the searches: two games, WHITE on script 0 and BLACK on script 0 or 2,
\* and minimax on their boards for either colour to move, either root and
\* every depth
InitSearch ==
    /\ Init
    /\ strat \in {[p \in PLAYERS |-> 0],
                  [p \in PLAYERS |-> IF p = BLACK THEN 2 ELSE 0]}

NextSearch == PlayTurn \/ PlayEnd \/ Search \/ Drop

SpecSearch == InitSearch /\ [][NextSearch]_vars

\* the games ai_strategy plays: against itself, and as either colour against
\* the human on script 0
InitAI ==
    /\ heap = (0 :> initial_cells)
    /\ board = 0
    /\ player = BLACK
    /\ strat \in {[p \in PLAYERS |-> AI],
                  [p \in PLAYERS |-> IF p = BLACK THEN AI ELSE 0],
                  [p \in PLAYERS |-> IF p = WHITE THEN AI ELSE 0]}
    /\ pc = "loop"
    /\ b = None
    /\ w = None
    /\ nmoves = 0
    /\ last = NoCall
    /\ call = NoCall
    /\ search = NoSearch
    /\ AI_SEARCH_DEPTH = 4
    /\ NODES_EXAMINED = 0
    /\ ai = NoAi

NextAI == PlayTurn \/ AiTurn \/ PlayEnd

SpecAI == InitAI /\ [][NextAI]_vars

\* the game on script 0 with callers that hand make_move a refused square
NextMisuse == PlayTurn \/ PlayEnd \/ CallIllegal \/ Drop

SpecMisuse == InitSearch /\ [][NextMisuse]_vars

(* ======================================================================= *)
(* Properties                                                              *)
(* ======================================================================= *)

\* the make_move calls whose result the state holds
Calls == {c \in {last, call} : c.ret # None}

\* a border index: its row digit or its column digit is 0 or 9
Border(i) == (i \div 10) \in {0, 9} \/ (i % 10) \in {0, 9}

\* number of play squares of cells that hold colour
OnPlay(colour, cells) ==
    Cardinality({i \in 0..99 : ~Border(i) /\ cells[i] = colour})

HasMove(p, cells) == Len(legal_moves(p, cells)) > 0

\* C1: on every board reached (the boards of the game, and the result of
\* one more call with any legal move of either colour or with the pass
\* value) the 36 border cells are OUTER, every play square is EMPTY, BLACK
\* or WHITE, and the three counts over the play squares add up to 64.
C1_BorderAndSquares ==
    \A id \in DOMAIN heap :
        LET cells == heap[id] IN
        /\ DOMAIN cells = 0..99
        /\ Cardinality({i \in 0..99 : Border(i)}) = 36
        /\ \A i \in 0..99 :
              IF Border(i) THEN cells[i] = OUTER
              ELSE cells[i] \in {EMPTY, BLACK, WHITE}
        /\ OnPlay(BLACK, cells) + OnPlay(WHITE, cells) + OnPlay(EMPTY, cells) = 64

\* a disc on the edge of the board, after a move that flipped along an edge
\* and a pass applied on top
C1_Witness ==
    /\ last.ret # None /\ last.move # None
    /\ call.ret # None /\ call.move = None
    /\ \E i \in 0..99 : heap[call.ret][i] # EMPTY /\ heap[call.ret][i] # OUTER
                        /\ Border(i + 1)
    /\ nmoves >= 10

\* i lies strictly between move and bracket on the line of direction d
StrictlyBetween(i, move, bracket, d) ==
    \E k \in 1..8 : /\ i = move + k * d
                    /\ \E j \in (k + 1)..9 : bracket = move + j * d

\* the directions that bracket on cells, the board before the move
BracketDirs(move, p, cells) ==
    {n \in 1..8 : find_bracket(move, p, cells, DIRECTIONS[n]) # None}

\* the board the claim describes, from the board before the move alone
Expected(move, p, cells) ==
    [i \in 0..99 |->
        IF i = move THEN p
        ELSE IF \E n \in BracketDirs(move, p, cells) :
                   StrictlyBetween(i, move,
                                   find_bracket(move, p, cells, DIRECTIONS[n]),
                                   DIRECTIONS[n])
             THEN p
             ELSE cells[i]]

\* C2: make_move with a legal move m of p puts p on m, turns to p exactly the
\* opponent discs strictly between m and the bracket of each direction that
\* brackets on the board before the move, and changes no other cell.
C2_FlipsExactlyBracketed ==
    \A c \in Calls :
        c.move # None =>
            /\ heap[c.ret] = Expected(c.move, c.player, c.saved)
            /\ \A i \in 0..99 :
                  heap[c.ret][i] # c.saved[i] =>
                      \/ i = c.move /\ c.saved[i] = EMPTY
                      \/ c.saved[i] = opponent(c.player)

\* a move that brackets in three directions or more, one of them over a run
\* of two discs or more
C2_Witness ==
    \E c \in Calls :
        /\ c.move # None
        /\ Cardinality(BracketDirs(c.move, c.player, c.saved)) >= 3
        /\ \E n \in BracketDirs(c.move, c.player, c.saved) :
              find_bracket(c.move, c.player, c.saved, DIRECTIONS[n])
                  \notin {c.move + 2 * DIRECTIONS[n]}

\* C3: a legal move raises the mover's count, does not raise the opponent's
\* count, and raises the number of discs on the board by exactly 1.
C3_DiscCounts ==
    \A c \in Calls :
        c.move # None =>
            LET p == c.player
                o == opponent(c.player)
                before == c.saved
                after == heap[c.ret]
            IN /\ count(p, after) > count(p, before)
               /\ count(o, after) <= count(o, before)
               /\ count(p, after) + count(o, after)
                     = count(p, before) + count(o, before) + 1

\* a move by WHITE that takes four discs or more from BLACK
C3_Witness ==
    \E c \in Calls :
        /\ c.move # None /\ c.player = WHITE
        /\ count(BLACK, heap[c.ret]) + 4 <= count(BLACK, c.saved)

\* C4: after make_move, for a legal square and for the pass value alike, the
\* list passed in holds the cells it held before the call, and the list
\* returned is another object.
C4_InputNotMutated ==
    \A c \in Calls :
        /\ c.arg \in DOMAIN heap
        /\ heap[c.arg] = c.saved
        /\ c.ret # c.arg

\* a move applied by the game loop and a pass applied to its result
C4_Witness ==
    /\ last.ret # None /\ last.move # None
    /\ call.ret # None /\ call.move = None /\ call.arg = board
    /\ heap[call.ret] = heap[board]

\* C5: on every board reached, next_player answers None for BLACK as the
\* previous player exactly when terminal holds, the same for WHITE, and
\* that is exactly when neither colour has a legal move.
C5_NoneIffTerminal ==
    \A id \in DOMAIN heap :
        LET cells == heap[id]
            stuck == ~HasMove(BLACK, cells) /\ ~HasMove(WHITE, cells)
        IN /\ \A pp \in PLAYERS :
                 (next_player(pp, cells) = None) <=> terminal(cells)
           /\ terminal(cells) <=> stuck

\* a board on which exactly one colour has a legal move
C5_Witness ==
    \E id \in DOMAIN heap :
        HasMove(BLACK, heap[id]) # HasMove(WHITE, heap[id])

\* C6: after a move of the game loop, the next mover is the opponent when
\* the opponent has a legal move; the mover again only when the opponent has
\* none and the mover has one; nobody only when neither has one; and the
\* player named has a legal move.
C6_TurnOrder ==
    last.ret # None =>
        LET cells == heap[board]
            prev == last.player
            opp == opponent(last.player)
        IN /\ board = last.ret
           /\ HasMove(opp, cells) => player = opp
           /\ player = prev => ~HasMove(opp, cells) /\ HasMove(prev, cells)
           /\ player = None => ~HasMove(opp, cells) /\ ~HasMove(prev, cells)
           /\ player \in {opp, prev, None}
           /\ player # None => HasMove(player, cells)

\* the opponent had to pass: the mover is to move again
C6_Witness ==
    /\ last.ret # None
    /\ player = last.player
    /\ call = NoCall

\* C7: the game loop ends after at most 60 applied moves, exactly on the
\* first board on which neither colour has a legal move. Every iteration
\* starts from a board on which somebody can move and leaves one disc more
\* on the board (4 + the number of applied moves, at most 64); the loop
\* variable is None exactly when neither colour can move; the report is made
\* only then, and can be made then.
C7_LoopEnds ==
    /\ nmoves <= 60
    /\ count(BLACK, heap[board]) + count(WHITE, heap[board]) = nmoves + 4
    /\ last.ret # None =>
          /\ HasMove(BLACK, last.saved) \/ HasMove(WHITE, last.saved)
          /\ last.move # None
    /\ (player = None) <=>
          (~HasMove(BLACK, heap[board]) /\ ~HasMove(WHITE, heap[board]))
    /\ pc = "done" => player = None
    /\ (player = None /\ call = NoCall /\ search = NoSearch) =>
          (pc = "done" \/ ENABLED PlayEnd)

\* a game that is over, played with scripts other than the smallest move,
\* whose last move was made after a pass
C7_Witness ==
    /\ pc = "done"
    /\ strat[BLACK] # 0 \/ strat[WHITE] # 0
    /\ nmoves = 60
    /\ HasMove(BLACK, last.saved) # HasMove(WHITE, last.saved)

\* C8: with both colours on the smallest-index script the game is reported
\* after at most 60 moves, and BLACK's and WHITE's counts add up to 64.
C8_SmallestIndexGame ==
    (strat[BLACK] = 0 /\ strat[WHITE] = 0) =>
        /\ nmoves <= 60
        /\ last.ret # None =>
              last.move = legal_moves(last.player, last.saved)[1]
        /\ (call = NoCall /\ search = NoSearch /\ pc = "loop") =>
              (player # None \/ ENABLED PlayEnd)
        /\ pc = "done" => (player = None /\ b + w = 64)

\* the report of that game
C8_Witness ==
    /\ strat[BLACK] = 0 /\ strat[WHITE] = 0
    /\ last.ret # None /\ last.move = legal_moves(last.player, last.saved)[1]
    /\ pc = "done"
    /\ b + w = 64

\* C9 as stated: BLACK's legal moves on the initial board are 35, 46, 53, 64
C9_Original ==
    nmoves = 0 => legal_moves(BLACK, heap[board]) = <<35, 46, 53, 64>>

\* C9, amended: BLACK's legal moves on the board of initial_board() are
\* exactly the four squares 34, 43, 56 and 65, in this order.
C9_OpeningMoves ==
    nmoves = 0 => legal_moves(BLACK, heap[board]) = <<34, 43, 56, 65>>

\* the board of initial_board(), before any move
C9_Witness ==
    /\ nmoves = 0
    /\ heap[board][44] = WHITE /\ heap[board][45] = BLACK
    /\ Len(legal_moves(BLACK, heap[board])) = 4

\* C10: minimax returns the move None exactly when depth is 0, or the board
\* is terminal, or the player to move has no legal move; in every other
\* case the move returned is a legal move of the player to move.
C10_SearchOutcome ==
    search # NoSearch =>
        LET cells == heap[board]
            moves == legal_moves(search.player, cells)
            stuck == ~HasMove(BLACK, cells) /\ ~HasMove(WHITE, cells)
        IN /\ (search.move = None) <=>
                 (search.depth = 0 \/ stuck \/ moves = <<>>)
           /\ search.move # None =>
                 \E n \in 1..Len(moves) : moves[n] = search.move

\* a search of depth 1 or more for a player to move who has a legal move,
\* on a board on which the other colour has none
C10_Witness ==
    /\ search # NoSearch
    /\ search.depth >= 1
    /\ search.move # None
    /\ ~HasMove(opponent(search.player), heap[board])

\* the legal moves of p on cells with the value minimax gives each child,
\* computed move by move with a counter of its own
ChildValues(cells, p, depth, root) ==
    LET moves == legal_moves(p, cells) IN
    {[move |-> moves[n],
      val |-> child_search(cells, p, depth, root, moves[n], 0).val] :
        n \in 1..Len(moves)}

\* among kids, val is the best value for the side to move and move is the
\* smallest square that has it
SmallestBest(maximizing, kids, val, move) ==
    /\ \E k \in kids : k.move = move /\ k.val = val
    /\ \A k \in kids : IF maximizing THEN k.val <= val ELSE k.val >= val
    /\ \A k \in kids : k.val = val => move <= k.move

\* a search of depth 1 or more on a board where the player to move has a move
Looped(s) == s # NoSearch /\ s.depth >= 1 /\ s.kids # {}

\* C11: at a node with depth >= 1 and legal moves, the value returned is the
\* best child value (the largest when the player to move is the root player,
\* the smallest otherwise) and the move returned is the smallest square among
\* all legal moves whose child has that value, corners examined first or not.
C11_TieBreak ==
    /\ search # NoSearch /\ search.depth >= 1
          /\ HasMove(search.player, heap[board]) => Looped(search)
    /\ Looped(search) =>
          /\ search.kids = ChildValues(heap[board], search.player,
                                       search.depth, search.root)
          /\ SmallestBest(search.player = search.root, search.kids,
                          search.val, search.move)

\* a corner ties for the best value with a smaller square that is no corner
C11_Witness ==
    /\ Looped(search)
    /\ ~is_corner(search.move)
    /\ \E k \in search.kids : k.val = search.val /\ is_corner(k.move)
                              /\ k.move > search.move

\* the same search with the moves taken in the order legal_moves lists them,
\* ascending, in place of the order of line 246: (val, move) alone
RECURSIVE ascending(_, _, _, _)
RECURSIVE ascending_moves(_, _, _, _, _, _, _)

ascending_child(child_board, nxt, depth, root_player) ==
    IF nxt = None THEN evaluate(child_board, root_player)
    ELSE ascending(child_board, nxt, depth - 1, root_player).val

ascending_keep(maximizing, best, mv, val) ==
    IF improves(maximizing, val, mv, best.val, best.move)
    THEN [val |-> val, move |-> mv]
    ELSE best

ascending_moves(cells, player_to_move, depth, root_player, moves, n, best) ==
    IF best.move = None \/ n > Len(moves) THEN best
    ELSE ascending_moves(cells, player_to_move, depth, root_player, moves,
            n + 1,
            ascending_keep(player_to_move = root_player, best, moves[n],
                ascending_child(
                    child_cells(moves[n], player_to_move, cells),
                    next_player(player_to_move,
                                child_cells(moves[n], player_to_move, cells)),
                    depth, root_player)))

ascending(cells, player_to_move, depth, root_player) ==
    IF base_case(depth, cells)
    THEN [val |-> evaluate(cells, root_player), move |-> None]
    ELSE
    LET moves == legal_moves(player_to_move, cells) IN
    IF moves = <<>>
    THEN [val |-> ascending_child(
                      child_cells(None, player_to_move, cells),
                      next_player(player_to_move,
                                  child_cells(None, player_to_move, cells)),
                      depth, root_player),
          move |-> None]
    ELSE ascending_moves(cells, player_to_move, depth, root_player, moves, 1,
            [val |-> IF player_to_move = root_player
                     THEN -1000000000 ELSE 1000000000,
             move |-> moves[1]])

SameOutcome(s, a) == a.val = s.val /\ a.move = s.move

\* C12: minimax with the corners examined first returns the same value and
\* the same move as the same search examining the legal moves in ascending
\* order of their squares.
C12_OrderUnobservable ==
    search # NoSearch =>
        SameOutcome(search, ascending(heap[board], search.player,
                                      search.depth, search.root))

\* a search where the corners-first order differs from the ascending order
\* and the move returned is not the first one examined
C12_Witness ==
    /\ Looped(search)
    /\ search.depth = MaxDepth
    /\ LET moves == legal_moves(search.player, heap[board])
       IN /\ sorted_moves(moves) # moves
          /\ search.move # sorted_moves(moves)[1]

\* C13: on every board reached by legal play (the boards of the game, and
\* the result of one more legal move of either colour or of a pass),
\* evaluate for BLACK is the negation of evaluate for WHITE.
C13_EvaluateAntisymmetric ==
    \A id \in DOMAIN heap :
        evaluate(heap[id], BLACK) = 0 - evaluate(heap[id], WHITE)

\* a board where each of the five terms of evaluate is non-zero
C13_Witness ==
    \E id \in DOMAIN heap :
        LET cells == heap[id] IN
        /\ held(CORNERS, BLACK, cells) # held(CORNERS, WHITE, cells)
        /\ held(X_SQUARES, BLACK, cells) # held(X_SQUARES, WHITE, cells)
        /\ held(C_SQUARES, BLACK, cells) # held(C_SQUARES, WHITE, cells)
        /\ Len(legal_moves(BLACK, cells)) # Len(legal_moves(WHITE, cells))
        /\ score(BLACK, cells) # 0
        /\ evaluate(cells, BLACK) # 0

\* C14: make_move rejects a square that is occupied, that is not one of the
\* 64 play squares, or that brackets nothing for the player: no call with
\* such a square returns a board.
C14_IllegalMoveRejected ==
    \A c \in Calls :
        c.move # None => is_legal(c.move, c.player, c.saved)

\* the column step and the row step of a direction
StepCol(d) == ((d + 15) % 10) - 5
StepRow(d) == (d - StepCol(d)) \div 10

\* the j-th index from sq in direction d is an index of the list and lies j
\* steps along the line of d on the 10 x 10 grid
OnLine(sq, d, j) ==
    /\ sq + j * d \in 0..99
    /\ (sq + j * d) \div 10 = (sq \div 10) + j * StepRow(d)
    /\ (sq + j * d) % 10 = (sq % 10) + j * StepCol(d)

\* the last index find_bracket reads: the first cell from sq + d on that
\* does not hold the opponent
LastRead(sq, p, cells, d) ==
    IF cells[sq + d] = opponent(p) THEN bracket_walk(sq + d, p, cells, d)
    ELSE sq + d

\* find_bracket from sq for p in direction d read up to stop and returned r
SafeRun(sq, p, cells, d, stop, r) ==
    \E k \in 1..8 :
        /\ stop = sq + k * d
        /\ \A j \in 1..k : OnLine(sq, d, j)
        /\ \A j \in 1..(k - 1) : cells[sq + j * d] = opponent(p)
        /\ r # None => r = stop /\ cells[r] = p /\ k >= 2
        /\ cells[stop] \in {OUTER, EMPTY} => r = None

SentinelSafe(cells) ==
    \A sq \in 11..88, p \in PLAYERS, m \in 1..Len(DIRECTIONS) :
        on_board(sq) =>
            SafeRun(sq, p, cells, DIRECTIONS[m],
                    LastRead(sq, p, cells, DIRECTIONS[m]),
                    find_bracket(sq, p, cells, DIRECTIONS[m]))

\* C15: on every board of the games, from every play square, for either player
\* and each of the 8 directions, find_bracket reads only indices in 0..99
\* that lie on one line of the grid, reads past no border cell, returns an
\* index only when it holds the player's disc behind one or more opponent
\* discs, and returns None when the run ends on an OUTER or EMPTY cell.
C15_SentinelSafety == SentinelSafe(heap[board])

\* on the board of the game a run of three opponent discs or more ends on a
\* border cell, and another run of three or more ends on the player's disc
C15_Witness ==
    LET cells == heap[board] IN
    /\ \E sq \in 11..88, p \in PLAYERS, m \in 1..Len(DIRECTIONS) :
          /\ on_board(sq)
          /\ cells[sq + DIRECTIONS[m]] = opponent(p)
          /\ cells[sq + 2 * DIRECTIONS[m]] = opponent(p)
          /\ cells[sq + 3 * DIRECTIONS[m]] = opponent(p)
          /\ cells[LastRead(sq, p, cells, DIRECTIONS[m])] = OUTER
          /\ find_bracket(sq, p, cells, DIRECTIONS[m]) = None
    /\ \E sq \in 11..88, p \in PLAYERS, m \in 1..Len(DIRECTIONS) :
          /\ on_board(sq)
          /\ cells[sq + DIRECTIONS[m]] = opponent(p)
          /\ cells[sq + 2 * DIRECTIONS[m]] = opponent(p)
          /\ cells[sq + 3 * DIRECTIONS[m]] = opponent(p)
          /\ find_bracket(sq, p, cells, DIRECTIONS[m]) # None

\* C16: in a search called with depth d >= 0, an invocation nested k levels
\* below the top-level one is given the depth d - k, no invocation is given a
\* negative depth, none is nested more than d levels deep however many
\* squares are empty, and the search returns.
C16_DepthBounded ==
    search # NoSearch =>
        /\ \E t \in search.trace : t.level = 0 /\ t.depth = search.depth
        /\ \A t \in search.trace :
              /\ t.depth = search.depth - t.level
              /\ t.depth >= 0
              /\ t.level <= search.depth

\* a search of the largest depth that goes down to depth 0, through a node
\* that loops over its moves, on a board with more empty squares than that
C16_Witness ==
    /\ search # NoSearch
    /\ search.depth = MaxDepth
    /\ count(EMPTY, heap[board]) > MaxDepth + 1
    /\ \E t \in search.trace : t.level = MaxDepth /\ t.depth = 0
    /\ \E t \in search.trace : t.branch = "moves" /\ t.level = MaxDepth - 1

\* C17: when ai_strategy has searched, NODES_EXAMINED is the number of
\* minimax invocations of that search (the top-level one, the base cases and
\* every recursive call counted once each), whatever the counter held when
\* ai_strategy was entered.
C17_NodeCounter ==
    ai # NoAi =>
        /\ NODES_EXAMINED = ai.calls
        /\ ai.calls >= 1

\* a search entered with the counter of an earlier search still in place,
\* and that made another number of invocations than that one
C17_Witness ==
    /\ ai # NoAi
    /\ ai.before > 1
    /\ ai.calls > 1
    /\ ai.calls # ai.before

\* C18: in play(), with human_strategy and ai_strategy, the player the loop
\* is about to ask has a legal move on the current board, and the move the
\* loop applied last was a legal move of a player who had one: no strategy
\* returned None and make_move was not called with None.
C18_NoPassValueInPlay ==
    /\ pc = "loop" /\ player # None => HasMove(player, heap[board])
    /\ last.ret # None =>
          /\ HasMove(last.player, last.saved)
          /\ last.move # None
          /\ is_legal(last.move, last.player, last.saved)

\* a pass in a game: after a move of ai_strategy the opponent has no move,
\* and next_player answered the same player again
C18_Witness ==
    /\ last.ret # None
    /\ player = last.player
    /\ strat[player] = AI
    /\ ~HasMove(opponent(player), heap[board])

\* C19: in a search, the forced-pass branch finds a next mover, who is the
\* opponent (its arm for no next mover is never taken); every recursive call
\* is for a player who has a legal move on the board handed to it, so only
\* the top-level invocation takes the forced-pass branch.
C19_ForcedPassTopLevelOnly ==
    search # NoSearch =>
        /\ \A t \in search.trace :
              /\ t.branch # "pass_end"
              /\ t.level >= 1 => t.mover /\ t.branch \in {"base", "moves"}
              /\ t.branch = "pass" => t.level = 0 /\ ~t.mover /\ t.depth >= 1
        /\ (\E t \in search.trace : t.branch = "pass") =>
              /\ ~HasMove(search.player, heap[board])
              /\ next_player(search.player, heap[board])
                    = opponent(search.player)

\* a search of the largest depth that starts with a forced pass and loops
\* over the opponent's moves below it
C19_Witness ==
    /\ search # NoSearch
    /\ search.depth = MaxDepth
    /\ \E t \in search.trace : t.branch = "pass" /\ t.level = 0
    /\ \E t \in search.trace : t.branch = "moves" /\ t.level = 1
    /\ \E t \in search.trace : t.branch = "base" /\ t.level = MaxDepth

\* C20: a move of the game, and any legal move or pass applied to a board of
\* the game, leaves every corner that holds a disc with the disc of the same
\* colour: from one board of a game to the next, and so to every later one,
\* a corner disc is neither flipped nor removed.
C20_CornerPermanence ==
    \A c \in Calls :
        \A n \in 1..Len(CORNERS) :
            c.saved[CORNERS[n]] \in PLAYERS =>
                heap[c.ret][CORNERS[n]] = c.saved[CORNERS[n]]

\* a move of the opponent flips the disc next to a corner that is held
C20_Witness ==
    \E c \in Calls :
        \E n \in 1..Len(CORNERS), m \in 1..Len(DIRECTIONS) :
            /\ c.move # None
            /\ c.saved[CORNERS[n]] = opponent(c.player)
            /\ c.saved[CORNERS[n] + DIRECTIONS[m]] = opponent(c.player)
            /\ heap[c.ret][CORNERS[n] + DIRECTIONS[m]] = c.player
            /\ heap[c.ret][CORNERS[n]] = opponent(c.player)


====
